---- MODULE Spec2Model ----
(***************************************************************************)
(* GameRoom booking bot (src/bot.py): slot generation, pricing, the        *)
(* overlap check, the booking conversation and the operator commands.      *)
(*                                                                         *)
(* Time.  A local datetime is the number of whole minutes since local      *)
(* midnight of date 0 (the "today" of the model); seconds are always zero  *)
(* in the handlers.  TZ is the default Europe/Moscow, a fixed UTC offset,  *)
(* so datetime arithmetic is plain minute arithmetic.  A stored timestamp  *)
(* is in epoch seconds relative to 00:00 UTC of date 0.                    *)
(*                                                                         *)
(* Scheduling.  Every handler is a coroutine on one asyncio event loop.    *)
(* A handler's database work contains no await, so each handler is one     *)
(* atomic action.  Which handler an update reaches is taken from the       *)
(* `states` table of build_app.                                            *)
(***************************************************************************)
EXTENDS Integers, Sequences, FiniteSets, TLC

\* ---- program constants ------------------------------------------------
OPEN_HOUR == 13
CLOSE_HOUR == 2
SLOT_STEP_MIN == 60
BUFFER_MIN == 10
DAY_RATE == 400
EVE_RATE == 500
DAY_BAND_END_HOUR == 18
SQUAD_RATE == 100
HEADSET_FEE == 150
UtcOffsetMin == 180

\* ---- bounds of the model ----------------------------------------------
\* rows the bookings table may hold
MaxBookings == 2
\* dates of the direct calls of iter_open_slots: 0 .. NumDays - 1
NumDays == 2
\* durations of the direct calls of iter_open_slots: 0, 5, ..., 5 * MaxDurFives
MaxDurFives == 160
\* start times of the direct calls of price_for_interval lie PriceStep apart
PriceStep == 15
\* clock readings of the direct calls of time_kb: 0, 20, ..., 20 * MaxNowSteps
\* minutes after the midnight that starts day 0
MaxNowSteps == 114

MinPerDay == 24 * 60
\* Telegram user ids of the two customers
Users == {1, 2}

Min2(a, b) == IF a < b THEN a ELSE b
Max2(a, b) == IF a > b THEN a ELSE b
Range(s) == {s[i] : i \in 1 .. Len(s)}

\* ---- time utilities ---------------------------------------------------
\* TZ.localize(datetime.strptime(ds, "%Y-%m-%d")): local midnight of a date
LocalMidnight(d) == d * MinPerDay

\* datetime.replace(hour=h, minute=m) (seconds are zero throughout)
Replace(dt, h, m) == (dt \div MinPerDay) * MinPerDay + h * 60 + m

\* datetime.time() as minutes into the day, datetime.date() as day number
TimeOfDay(dt) == dt % MinPerDay
DateOf(dt) == dt \div MinPerDay

\* strftime("%H:%M") and its parse in time_chosen (hhmm[:2], hhmm[3:])
StrfHM(dt) == <<TimeOfDay(dt) \div 60, TimeOfDay(dt) % 60>>

to_utc(dt_local) == dt_local - UtcOffsetMin

\* int(datetime.timestamp()): epoch seconds
Timestamp(dt_utc) == dt_utc * 60

\* ---- iter_open_slots --------------------------------------------------
RECURSIVE SlotLoop(_, _, _, _)
SlotLoop(cur, close_dt, dur, slots) ==
    IF cur + dur + BUFFER_MIN <= close_dt
    THEN SlotLoop(cur + SLOT_STEP_MIN, close_dt, dur, Append(slots, <<cur, cur + dur>>))
    ELSE slots

RECURSIVE SlotLoopNoBuffer(_, _, _, _)
SlotLoopNoBuffer(cur, close_dt, dur, slots) ==
    IF cur + dur <= close_dt
    THEN SlotLoopNoBuffer(cur + SLOT_STEP_MIN, close_dt, dur, Append(slots, <<cur, cur + dur>>))
    ELSE slots

\* mutant: the loop condition forgets the buffer
iter_open_slots_NoBuffer(date_local, duration_min) ==
    SlotLoopNoBuffer(Replace(date_local, OPEN_HOUR, 0),
                     Replace(date_local + MinPerDay, CLOSE_HOUR, 0),
                     duration_min, <<>>)

RECURSIVE SlotLoopBufferedEnd(_, _, _, _)
SlotLoopBufferedEnd(cur, close_dt, dur, slots) ==
    IF cur + dur + BUFFER_MIN <= close_dt
    THEN SlotLoopBufferedEnd(cur + SLOT_STEP_MIN, close_dt, dur,
                             Append(slots, <<cur, cur + dur + BUFFER_MIN>>))
    ELSE slots

\* mutant: the buffer is folded into the returned end
iter_open_slots_BufferedEnd(date_local, duration_min) ==
    SlotLoopBufferedEnd(Replace(date_local, OPEN_HOUR, 0),
                        Replace(date_local + MinPerDay, CLOSE_HOUR, 0),
                        duration_min, <<>>)

iter_open_slots(date_local, duration_min) ==
    SlotLoop(Replace(date_local, OPEN_HOUR, 0),
             Replace(date_local + MinPerDay, CLOSE_HOUR, 0),
             duration_min, <<>>)

\* ---- price_for_interval -----------------------------------------------
\* The code sums floats rate/60; the model keeps the exact numerator over 60.
\* The sums are multiples of 100/60, at least 1/6 away from any rounding tie,
\* and the float error of at most a few hundred additions is far below that.
RateAt(cur) ==
    IF OPEN_HOUR * 60 <= TimeOfDay(cur) /\ TimeOfDay(cur) < DAY_BAND_END_HOUR * 60
    THEN DAY_RATE ELSE EVE_RATE

\* The while loop adds one term per minute cur = start, start + 1, ... < end
\* (whole-minute endpoints, so min(end, cur + 1) is cur + 1).  The sum of the
\* terms is taken by halves to keep the evaluation shallow.
RECURSIVE PriceLoop(_, _)
PriceLoop(cur, end_local) ==
    IF cur >= end_local THEN 0
    ELSE IF cur + 1 = end_local THEN RateAt(cur)
    ELSE LET mid == (cur + end_local) \div 2
         IN  PriceLoop(cur, mid) + PriceLoop(mid, end_local)

\* int(round(x, 0)) for x = n60 / 60: nearest integer, ties to even
RoundHalfEven60(n60) ==
    LET q == n60 \div 60
        r == n60 % 60
    IN  IF 2 * r > 60 THEN q + 1
        ELSE IF 2 * r < 60 THEN q
        ELSE IF q % 2 = 0 THEN q ELSE q + 1

RECURSIVE PriceLoopRounded(_, _)
PriceLoopRounded(cur, end_local) ==
    IF cur >= end_local THEN 0
    ELSE IF cur + 1 = end_local THEN RoundHalfEven60(RateAt(cur))
    ELSE LET mid == (cur + end_local) \div 2
         IN  PriceLoopRounded(cur, mid) + PriceLoopRounded(mid, end_local)

\* mutant: every minute's contribution is rounded before it is added
price_for_interval_RoundPerMinute(start_local, end_local, gamepads_mode, headsets) ==
    LET base == PriceLoopRounded(start_local, end_local) * 60
        withPads == IF gamepads_mode = "squad"
                    THEN base + SQUAD_RATE * (end_local - start_local) ELSE base
        withHs == IF headsets THEN withPads + HEADSET_FEE * 60 ELSE withPads
    IN  RoundHalfEven60(withHs)

\* mutant: the headset fee is charged per started hour instead of once
price_for_interval_HeadsetPerHour(start_local, end_local, gamepads_mode, headsets) ==
    LET base == PriceLoop(start_local, end_local)
        minutes == end_local - start_local
        withPads == IF gamepads_mode = "squad" THEN base + SQUAD_RATE * minutes ELSE base
        withHs == IF headsets
                  THEN withPads + HEADSET_FEE * 60 * ((minutes + 59) \div 60) ELSE withPads
    IN  RoundHalfEven60(withHs)

\* mutant: the loop compares times of day, so an interval that runs past
\* midnight has no minute to charge
price_for_interval_TimeOfDayLoop(start_local, end_local, gamepads_mode, headsets) ==
    LET base == IF TimeOfDay(start_local) < TimeOfDay(end_local)
                THEN PriceLoop(start_local,
                               start_local + TimeOfDay(end_local) - TimeOfDay(start_local))
                ELSE 0
        minutes == end_local - start_local
        withPads == IF gamepads_mode = "squad" THEN base + SQUAD_RATE * minutes ELSE base
        withHs == IF headsets THEN withPads + HEADSET_FEE * 60 ELSE withPads
    IN  RoundHalfEven60(withHs)

price_for_interval(start_local, end_local, gamepads_mode, headsets) ==
    LET base == PriceLoop(start_local, end_local)
        minutes == end_local - start_local
        withPads == IF gamepads_mode = "squad" THEN base + SQUAD_RATE * minutes ELSE base
        withHs == IF headsets THEN withPads + HEADSET_FEE * 60 ELSE withPads
    IN  RoundHalfEven60(withHs)

\* ---- overlaps ---------------------------------------------------------
ActiveStatuses == {"pending", "confirmed", "blocked"}

\* mutant: the status filter is dropped, cancelled rows count as occupied
overlaps_AnyStatus(conn, start_utc, end_utc) ==
    LET s == Timestamp(start_utc)
        e == Timestamp(end_utc)
    IN  \E i \in 1 .. Len(conn) :
            ~(conn[i].end_ts <= s \/ conn[i].start_ts >= e)

\* mutant: the comparisons are strict, intervals that touch count as
\* overlapping
overlaps_TouchingCounts(conn, start_utc, end_utc) ==
    LET s == Timestamp(start_utc)
        e == Timestamp(end_utc)
    IN  \E i \in 1 .. Len(conn) :
            /\ conn[i].status \in ActiveStatuses
            /\ ~(conn[i].end_ts < s \/ conn[i].start_ts > e)

\* conn is the bookings table, a sequence of rows; a row's id is its index
overlaps(conn, start_utc, end_utc) ==
    LET s == Timestamp(start_utc)
        e == Timestamp(end_utc)
    IN  \E i \in 1 .. Len(conn) :
            /\ conn[i].status \in ActiveStatuses
            /\ ~(conn[i].end_ts <= s \/ conn[i].start_ts >= e)

\* the check enter_phone makes before its insert: the candidate's end is
\* extended by the buffer
EnterPhoneCheck(conn, start_local, duration_min) ==
    overlaps(conn, to_utc(start_local), to_utc(start_local + duration_min + BUFFER_MIN))

\* the check admin_block makes before its insert: the interval as given
AdminBlockCheck(conn, d, dur) ==
    overlaps(conn, to_utc(d), to_utc(d + dur))

\* ---- keyboards --------------------------------------------------------
\* mutant: past slots are told by the time of day alone, so the slots after
\* local midnight count as past
OfferedSlots_ByTimeOfDay(date_local, duration_min, now_local) ==
    SelectSeq(iter_open_slots(date_local, duration_min),
              LAMBDA sl : ~(TimeOfDay(sl[1]) < TimeOfDay(now_local)
                            /\ DateOf(date_local) = DateOf(now_local)))

\* the slots whose button time_kb builds (rows of four are flattened)
OfferedSlots(date_local, duration_min, now_local) ==
    SelectSeq(iter_open_slots(date_local, duration_min),
              LAMBDA sl : ~(sl[1] < now_local /\ DateOf(date_local) = DateOf(now_local)))

\* the callback data "time:HH:MM" of the buttons, in order; the empty
\* sequence stands for the single "noop" button
time_kb(date_local, duration_min, now_local) ==
    LET offered == OfferedSlots(date_local, duration_min, now_local)
    IN  [i \in 1 .. Len(offered) |-> StrfHM(offered[i][1])]

\* duration_kb: the three duration buttons
DURATIONS == {60, 90, 120}

\* ---- state ------------------------------------------------------------
VARIABLES
    bookings,     \* the bookings table (columns the handlers compute with)
    user_drafts,  \* user id -> <<>> (no entry) or <<BookingDraft>>
    conv,         \* user id -> state of the ConversationHandler
    reply,        \* user id -> the last message the bot sent to the user
    now,          \* datetime.now(TZ)
    slotCall,     \* a direct call of iter_open_slots and its result
    priceCall,    \* a direct call of price_for_interval and its result
    kbCall        \* a direct call of time_kb and its result

vars == <<bookings, user_drafts, conv, reply, now, slotCall, priceCall, kbCall>>

\* Optional[T]: <<>> is None, <<v>> is a value
None == <<>>
Some(v) == <<v>>

BookingDraft ==
    [date |-> None, duration_min |-> 60, start_dt |-> None,
     gamepads_mode |-> "duo", headsets |-> FALSE, name |-> None, phone |-> None]

Msg(text, kb, price) == [text |-> text, kb |-> kb, price |-> price]
NoMsg == Msg("", <<>>, 0)

NoSlotCall == [pc |-> "idle", date_local |-> 0, duration_min |-> 0, out |-> <<>>]
NoPriceCall ==
    [pc |-> "idle", start_local |-> 0, end_local |-> 0, gamepads_mode |-> "duo",
     headsets |-> FALSE, out |-> 0]

NoKbCall == [pc |-> "idle", date_local |-> 0, duration_min |-> 0, out |-> <<>>]

\* ---- handlers ---------------------------------------------------------
UNCHANGED_calls == UNCHANGED <<slotCall, priceCall, kbCall>>

\* text starting with the booking button; the entry point, allow_reentry
menu_router(u) ==
    /\ user_drafts' = [user_drafts EXCEPT ![u] = Some(BookingDraft)]
    /\ reply' = [reply EXCEPT ![u] = Msg("choose_date", <<>>, 0)]
    /\ conv' = [conv EXCEPT ![u] = "CHOOSING_DATE"]
    /\ UNCHANGED <<bookings, now>>
    /\ UNCHANGED_calls

\* d is the day number of the pressed "date:YYYY-MM-DD" button
date_chosen(u, d) ==
    /\ conv[u] = "CHOOSING_DATE"
    /\ LET old == IF user_drafts[u] = None THEN BookingDraft ELSE user_drafts[u][1]
           draft == [old EXCEPT !.date = Some(LocalMidnight(d))]
       IN  user_drafts' = [user_drafts EXCEPT ![u] = Some(draft)]
    /\ reply' = [reply EXCEPT ![u] = Msg("choose_duration", <<>>, 0)]
    /\ conv' = [conv EXCEPT ![u] = "CHOOSING_DURATION"]
    /\ UNCHANGED <<bookings, now>>
    /\ UNCHANGED_calls

duration_chosen(u, minutes) ==
    /\ conv[u] = "CHOOSING_DURATION"
    /\ LET draft == [user_drafts[u][1] EXCEPT !.duration_min = minutes]
       IN  /\ user_drafts' = [user_drafts EXCEPT ![u] = Some(draft)]
           /\ reply' = [reply EXCEPT ![u] =
                  Msg("choose_time", time_kb(draft.date[1], draft.duration_min, now), 0)]
    /\ conv' = [conv EXCEPT ![u] = "CHOOSING_TIME"]
    /\ UNCHANGED <<bookings, now>>
    /\ UNCHANGED_calls

\* hhmm is the pressed button of the keyboard last sent to the user
time_chosen(u, hhmm) ==
    /\ conv[u] = "CHOOSING_TIME"
    /\ hhmm \in Range(reply[u].kb)
    /\ LET old == user_drafts[u][1]
           start_local == Replace(old.date[1], hhmm[1], hhmm[2])
           draft == [old EXCEPT !.start_dt = Some(start_local)]
       IN  user_drafts' = [user_drafts EXCEPT ![u] = Some(draft)]
    /\ reply' = [reply EXCEPT ![u] = Msg("addons", <<>>, 0)]
    /\ conv' = [conv EXCEPT ![u] = "CHOOSING_ADDONS"]
    /\ UNCHANGED <<bookings, now>>
    /\ UNCHANGED_calls

addons_toggle(u, data) ==
    /\ conv[u] = "CHOOSING_ADDONS"
    /\ LET draft == user_drafts[u][1]
           start_local == draft.start_dt[1]
           end_local == start_local + draft.duration_min
           price == price_for_interval(start_local, end_local,
                                       draft.gamepads_mode, draft.headsets)
       IN  CASE data \in {"pads:duo", "pads:squad"} ->
                  /\ user_drafts' = [user_drafts EXCEPT ![u] =
                         Some([draft EXCEPT !.gamepads_mode =
                                   IF data = "pads:duo" THEN "duo" ELSE "squad"])]
                  /\ reply' = [reply EXCEPT ![u] = Msg("addons", <<>>, 0)]
                  /\ UNCHANGED conv
            [] data = "hs:toggle" ->
                  /\ user_drafts' = [user_drafts EXCEPT ![u] =
                         Some([draft EXCEPT !.headsets = ~draft.headsets])]
                  /\ reply' = [reply EXCEPT ![u] = Msg("addons", <<>>, 0)]
                  /\ UNCHANGED conv
            [] data = "next:confirm" ->
                  /\ reply' = [reply EXCEPT ![u] = Msg("check_booking", <<>>, price)]
                  /\ conv' = [conv EXCEPT ![u] = "ENTERING_NAME"]
                  /\ UNCHANGED user_drafts
    /\ UNCHANGED <<bookings, now>>
    /\ UNCHANGED_calls

enter_name(u) ==
    /\ conv[u] = "ENTERING_NAME"
    /\ user_drafts' = [user_drafts EXCEPT ![u] =
           Some([user_drafts[u][1] EXCEPT !.name = Some("name")])]
    /\ reply' = [reply EXCEPT ![u] = Msg("ask_phone", <<>>, 0)]
    /\ conv' = [conv EXCEPT ![u] = "ENTERING_PHONE"]
    /\ UNCHANGED <<bookings, now>>
    /\ UNCHANGED_calls

\* ";".join of the selected add-ons
AddonsString(draft) ==
    IF draft.gamepads_mode = "squad"
    THEN IF draft.headsets THEN "squad;headsets" ELSE "squad"
    ELSE IF draft.headsets THEN "headsets" ELSE ""

\* mutant: the stored end is the buffer-extended end of the check
PendingRow_BufferedEnd(draft, price) ==
    [start_ts |-> Timestamp(to_utc(draft.start_dt[1])),
     end_ts |-> Timestamp(to_utc(draft.start_dt[1] + draft.duration_min + BUFFER_MIN)),
     duration_min |-> draft.duration_min,
     addons |-> IF draft.gamepads_mode = "squad"
                THEN IF draft.headsets THEN "squad;headsets" ELSE "squad"
                ELSE IF draft.headsets THEN "headsets" ELSE "",
     price_total |-> price,
     status |-> "pending"]

\* the row enter_phone inserts (the user, name, phone and created_ts columns
\* are written once and read by no modelled handler; they are left out)
PendingRow(draft, price) ==
    [start_ts |-> Timestamp(to_utc(draft.start_dt[1])),
     end_ts |-> Timestamp(to_utc(draft.start_dt[1] + draft.duration_min)),
     duration_min |-> draft.duration_min,
     addons |-> AddonsString(draft),
     price_total |-> price,
     status |-> "pending"]

\* mutant: a conflict is answered but the conversation ends instead of
\* going back to the choice of a time
enter_phone_EndOnConflict(u) ==
    /\ conv[u] = "ENTERING_PHONE"
    /\ LET draft == [user_drafts[u][1] EXCEPT !.phone = Some("phone")]
           start_local == draft.start_dt[1]
           conflict == EnterPhoneCheck(bookings, start_local, draft.duration_min)
       IN  /\ user_drafts' = [user_drafts EXCEPT ![u] = Some(draft)]
           /\ \/ /\ conflict
                 /\ reply' = [reply EXCEPT ![u] =
                        Msg("slot_taken", time_kb(draft.date[1], draft.duration_min, now), 0)]
                 /\ conv' = [conv EXCEPT ![u] = "END"]
                 /\ UNCHANGED bookings
              \/ /\ ~conflict
                 /\ Len(bookings) < MaxBookings
                 /\ LET price == price_for_interval(start_local,
                                     start_local + draft.duration_min,
                                     draft.gamepads_mode, draft.headsets)
                    IN  bookings' = Append(bookings, PendingRow(draft, price))
                 /\ reply' = [reply EXCEPT ![u] = Msg("accepted", <<>>, 0)]
                 /\ conv' = [conv EXCEPT ![u] = "END"]
    /\ UNCHANGED now
    /\ UNCHANGED_calls

\* phone from the contact or the text; then the re-check and the insert
enter_phone(u) ==
    /\ conv[u] = "ENTERING_PHONE"
    /\ LET draft == [user_drafts[u][1] EXCEPT !.phone = Some("phone")]
           start_local == draft.start_dt[1]
           conflict == EnterPhoneCheck(bookings, start_local, draft.duration_min)
       IN  /\ user_drafts' = [user_drafts EXCEPT ![u] = Some(draft)]
           /\ \/ /\ conflict
                 /\ reply' = [reply EXCEPT ![u] =
                        Msg("slot_taken", time_kb(draft.date[1], draft.duration_min, now), 0)]
                 /\ conv' = [conv EXCEPT ![u] = "CHOOSING_TIME"]
                 /\ UNCHANGED bookings
              \/ /\ ~conflict
                 /\ Len(bookings) < MaxBookings
                 /\ LET price == price_for_interval(start_local,
                                     start_local + draft.duration_min,
                                     draft.gamepads_mode, draft.headsets)
                    IN  bookings' = Append(bookings, PendingRow(draft, price))
                 /\ reply' = [reply EXCEPT ![u] = Msg("accepted", <<>>, 0)]
                 /\ conv' = [conv EXCEPT ![u] = "END"]
    /\ UNCHANGED now
    /\ UNCHANGED_calls

\* ---- operator commands ------------------------------------------------
SetStatus(conn, bid, status) ==
    [i \in 1 .. Len(conn) |-> IF i = bid THEN [conn[i] EXCEPT !.status = status] ELSE conn[i]]

\* "confirm <id>": UPDATE bookings SET status='confirmed' WHERE id=?
admin_confirm(bid) ==
    /\ bookings' = SetStatus(bookings, bid, "confirmed")
    /\ UNCHANGED <<user_drafts, conv, reply, now>>
    /\ UNCHANGED_calls

\* mutant: "cancel <id>" deletes the row instead of marking it
admin_cancel_Delete(bid) ==
    /\ bookings' = IF bid \in 1 .. Len(bookings)
                   THEN [i \in 1 .. Len(bookings) - 1 |->
                            IF i < bid THEN bookings[i] ELSE bookings[i + 1]]
                   ELSE bookings
    /\ UNCHANGED <<user_drafts, conv, reply, now>>
    /\ UNCHANGED_calls

\* "cancel <id>": UPDATE bookings SET status='cancelled' WHERE id=?
admin_cancel(bid) ==
    /\ bookings' = SetStatus(bookings, bid, "cancelled")
    /\ UNCHANGED <<user_drafts, conv, reply, now>>
    /\ UNCHANGED_calls

BlockedRow(start_utc, end_utc, dur) ==
    [start_ts |-> Timestamp(start_utc), end_ts |-> Timestamp(end_utc),
     duration_min |-> dur, addons |-> "", price_total |-> 0, status |-> "blocked"]

\* "block YYYY-MM-DD HH:MM <min>"; on an overlap only a message is sent
admin_block(date, h, m, dur) ==
    /\ LET d == Replace(LocalMidnight(date), h, m)
           start_utc == to_utc(d)
           end_utc == to_utc(d + dur)
       IN  /\ ~AdminBlockCheck(bookings, d, dur)
           /\ Len(bookings) < MaxBookings
           /\ bookings' = Append(bookings, BlockedRow(start_utc, end_utc, dur))
    /\ UNCHANGED <<user_drafts, conv, reply, now>>
    /\ UNCHANGED_calls

\* ---- the bot: two customers and the operator --------------------------
\* The customers book for today, before the room opens; they press the first
\* two buttons of the time keyboard, take 60 minutes and no add-ons.
Morning == LocalMidnight(0) + 12 * 60
\* local_today() as a day number
Today == DateOf(Morning)
PickedDurations == {60}
TimePicks == {<<13, 0>>, <<14, 0>>}
\* the operator's "block <today> HH:MM <min>" messages
BlockInputs == {<<Today, 13, 0, 50>>, <<Today, 14, 0, 60>>}

Init ==
    /\ bookings = <<>>
    /\ user_drafts = [u \in Users |-> None]
    /\ conv = [u \in Users |-> "END"]
    /\ reply = [u \in Users |-> NoMsg]
    /\ now = Morning
    /\ slotCall = NoSlotCall
    /\ priceCall = NoPriceCall
    /\ kbCall = NoKbCall

Next ==
    \/ \E u \in Users : menu_router(u)
    \/ \E u \in Users : date_chosen(u, Today)
    \/ \E u \in Users, minutes \in PickedDurations : duration_chosen(u, minutes)
    \/ \E u \in Users, hhmm \in TimePicks : time_chosen(u, hhmm)
    \/ \E u \in Users : addons_toggle(u, "next:confirm")
    \/ \E u \in Users : enter_name(u)
    \/ \E u \in Users : enter_phone(u)
    \/ \E bid \in 1 .. MaxBookings : admin_confirm(bid)
    \/ \E bid \in 1 .. MaxBookings : admin_cancel(bid)
    \/ \E b \in BlockInputs : admin_block(b[1], b[2], b[3], b[4])

Spec == Init /\ [][Next]_vars

\* ---- the bot with an operator who only blocks --------------------------
\* the customers' conversations and admin_block; no confirm, no cancel
NextBooking ==
    \/ \E u \in Users : menu_router(u)
    \/ \E u \in Users : date_chosen(u, Today)
    \/ \E u \in Users, minutes \in PickedDurations : duration_chosen(u, minutes)
    \/ \E u \in Users, hhmm \in TimePicks : time_chosen(u, hhmm)
    \/ \E u \in Users : addons_toggle(u, "next:confirm")
    \/ \E u \in Users : enter_name(u)
    \/ \E u \in Users : enter_phone(u)
    \/ \E b \in BlockInputs : admin_block(b[1], b[2], b[3], b[4])

SpecBooking == Init /\ [][NextBooking]_vars

\* ---- two conversations that both wait for the phone number -------------
\* Each customer has walked date, duration, time, "next:confirm" and name;
\* what is left of each conversation is enter_phone.
RacePicks == {<<13, 0>>, <<14, 0>>, <<15, 0>>, <<0, 0>>}

RaceDrafts ==
    {[BookingDraft EXCEPT !.date = Some(LocalMidnight(Today)),
                          !.duration_min = minutes,
                          !.start_dt = Some(Replace(LocalMidnight(Today), hhmm[1], hhmm[2])),
                          !.name = Some("name")] :
        <<minutes, hhmm>> \in
            {x \in DURATIONS \X RacePicks :
                x[2] \in Range(time_kb(LocalMidnight(Today), x[1], Morning))}}

InitRace ==
    /\ bookings = <<>>
    /\ user_drafts \in [Users -> {Some(d) : d \in RaceDrafts}]
    /\ conv = [u \in Users |-> "ENTERING_PHONE"]
    /\ reply = [u \in Users |-> Msg("ask_phone", <<>>, 0)]
    /\ now = Morning
    /\ slotCall = NoSlotCall
    /\ priceCall = NoPriceCall
    /\ kbCall = NoKbCall

NextRace == \E u \in Users : enter_phone(u)

SpecRace == InitRace /\ [][NextRace]_vars

\* ---- direct calls of iter_open_slots ----------------------------------
SlotCallDurations == {5 * k : k \in 0 .. MaxDurFives}

InitSlots ==
    /\ bookings = <<>>
    /\ user_drafts = [u \in Users |-> None]
    /\ conv = [u \in Users |-> "END"]
    /\ reply = [u \in Users |-> NoMsg]
    /\ now = Morning
    /\ priceCall = NoPriceCall
    /\ kbCall = NoKbCall
    /\ \E d \in 0 .. NumDays - 1, minutes \in SlotCallDurations :
           slotCall = [pc |-> "call", date_local |-> LocalMidnight(d),
                       duration_min |-> minutes, out |-> <<>>]

CallIterOpenSlots ==
    /\ slotCall.pc = "call"
    /\ slotCall' = [slotCall EXCEPT !.pc = "done",
                        !.out = iter_open_slots(slotCall.date_local, slotCall.duration_min)]
    /\ UNCHANGED <<bookings, user_drafts, conv, reply, now, priceCall, kbCall>>

NextSlots == CallIterOpenSlots

SpecSlots == InitSlots /\ [][NextSlots]_vars

\* ---- direct calls of price_for_interval -------------------------------
OpeningInstant(d) == LocalMidnight(d) + OPEN_HOUR * 60
ClosingInstant(d) == LocalMidnight(d + 1) + CLOSE_HOUR * 60

PriceCallStarts ==
    {OpeningInstant(0) + PriceStep * k :
        k \in 0 .. ((ClosingInstant(0) - OpeningInstant(0)) \div PriceStep)}
        \cup {OpeningInstant(0) + 299, OpeningInstant(0) + 301}
PriceCallLengths == {-60, -1, 0, 1, 29, 30, 59, 60, 61, 90, 120, 121, 300, 780}

InitPrice ==
    /\ bookings = <<>>
    /\ user_drafts = [u \in Users |-> None]
    /\ conv = [u \in Users |-> "END"]
    /\ reply = [u \in Users |-> NoMsg]
    /\ now = Morning
    /\ slotCall = NoSlotCall
    /\ kbCall = NoKbCall
    /\ \E s \in PriceCallStarts, len \in PriceCallLengths,
          mode \in {"duo", "squad"}, hs \in BOOLEAN :
           priceCall = [pc |-> "call", start_local |-> s, end_local |-> s + len,
                        gamepads_mode |-> mode, headsets |-> hs, out |-> 0]

\* the call returns an int on every path: the function has no raise
CallPriceForInterval ==
    /\ priceCall.pc = "call"
    /\ priceCall' = [priceCall EXCEPT !.pc = "returned",
                         !.out = price_for_interval(priceCall.start_local, priceCall.end_local,
                                     priceCall.gamepads_mode, priceCall.headsets)]
    /\ UNCHANGED <<bookings, user_drafts, conv, reply, now, slotCall, kbCall>>

NextPrice == CallPriceForInterval

SpecPrice == InitPrice /\ [][NextPrice]_vars

\* ---- direct calls of time_kb -------------------------------------------
\* the clock readings datetime.now(TZ) can return inside time_kb: every 20
\* minutes from the midnight that starts day 0
KbNows == {LocalMidnight(0) + 20 * k : k \in 0 .. MaxNowSteps}

InitKb ==
    /\ bookings = <<>>
    /\ user_drafts = [u \in Users |-> None]
    /\ conv = [u \in Users |-> "END"]
    /\ reply = [u \in Users |-> NoMsg]
    /\ now \in KbNows
    /\ slotCall = NoSlotCall
    /\ priceCall = NoPriceCall
    /\ \E d \in 0 .. NumDays - 1, minutes \in DURATIONS :
           kbCall = [pc |-> "call", date_local |-> LocalMidnight(d),
                     duration_min |-> minutes, out |-> <<>>]

CallTimeKb ==
    /\ kbCall.pc = "call"
    /\ kbCall' = [kbCall EXCEPT !.pc = "done",
                      !.out = time_kb(kbCall.date_local, kbCall.duration_min, now)]
    /\ UNCHANGED <<bookings, user_drafts, conv, reply, now, slotCall, priceCall>>

NextKb == CallTimeKb

SpecKb == InitKb /\ [][NextKb]_vars

\* ---- one customer who uses every button ---------------------------------
\* One customer books for today, before the room opens, with either of two
\* durations, the 17:00 and the 00:00 button of the time keyboard and every
\* button of the add-ons keyboard; the operator is silent.
FlowUsers == {u \in Users : \A v \in Users : u <= v}
FlowDurations == {60, 120}
FlowPicks == {<<17, 0>>, <<0, 0>>}
AddonsData == {"pads:duo", "pads:squad", "hs:toggle", "next:confirm"}

NextFlow ==
    \/ \E u \in FlowUsers : menu_router(u)
    \/ \E u \in FlowUsers : date_chosen(u, Today)
    \/ \E u \in FlowUsers, minutes \in FlowDurations : duration_chosen(u, minutes)
    \/ \E u \in FlowUsers, hhmm \in FlowPicks : time_chosen(u, hhmm)
    \/ \E u \in FlowUsers, data \in AddonsData : addons_toggle(u, data)
    \/ \E u \in FlowUsers : enter_name(u)
    \/ \E u \in FlowUsers : enter_phone(u)

SpecFlow == Init /\ [][NextFlow]_vars

\* ======================================================================
\* Properties
\* ======================================================================
IsActive(row) == row.status \in ActiveStatuses
Rows == 1 .. Len(bookings)

\* the draft of a customer who is about to commit, and the interval and the
\* buffer-extended interval of that commit, in epoch seconds
Draft(u) == user_drafts[u][1]
CommitStartTs(u) == Timestamp(to_utc(Draft(u).start_dt[1]))
CommitEndTs(u) == Timestamp(to_utc(Draft(u).start_dt[1] + Draft(u).duration_min))
BufferSec == BUFFER_MIN * 60

\* a step in which enter_phone runs for u (menu_router is the only other
\* handler that leaves ENTERING_PHONE, and it goes to CHOOSING_DATE)
CommitStep(u) ==
    /\ conv[u] = "ENTERING_PHONE"
    /\ conv'[u] \notin {"ENTERING_PHONE", "CHOOSING_DATE"}

\* C1: after any sequence of booking commits and operator blocks, any two
\* distinct active reservations are separated by the buffer: the later one
\* starts at least BUFFER_MIN minutes after the earlier one's stored end.
C1_ActiveRowsBufferSeparated ==
    \A i, j \in Rows :
        (i # j /\ IsActive(bookings[i]) /\ IsActive(bookings[j])
            /\ bookings[i].start_ts <= bookings[j].start_ts)
        => bookings[j].start_ts >= bookings[i].end_ts + BufferSec

\* C2: against an active reservation [s0, e0), a commit starting exactly at
\* e0 + BUFFER_MIN is inserted (when nothing else conflicts) and a commit
\* starting anywhere in [e0, e0 + BUFFER_MIN) is rejected.
C2_BufferEnforcedAtCommit ==
    [][\A u \in Users : CommitStep(u) =>
          \A i \in Rows : IsActive(bookings[i]) =>
              /\ (/\ CommitStartTs(u) = bookings[i].end_ts + BufferSec
                  /\ \A j \in Rows : (j # i /\ IsActive(bookings[j])) =>
                        \/ bookings[j].end_ts <= CommitStartTs(u)
                        \/ bookings[j].start_ts >= CommitEndTs(u) + BufferSec)
                 => Len(bookings') = Len(bookings) + 1
              /\ (/\ bookings[i].end_ts <= CommitStartTs(u)
                  /\ CommitStartTs(u) < bookings[i].end_ts + BufferSec)
                 => bookings' = bookings]_vars

\* C3: of two commits that run concurrently and whose buffer-extended
\* intervals overlap, at most one is persisted.  Under SpecRace a customer is
\* in state END exactly when the commit has inserted the row.
BufferExtendedOverlap(u, v) ==
    ~(\/ CommitEndTs(u) + BufferSec <= CommitStartTs(v)
      \/ CommitStartTs(u) >= CommitEndTs(v) + BufferSec)

C3_AtMostOneOfTwoCommits ==
    \A u, v \in Users :
        (u # v /\ BufferExtendedOverlap(u, v)) => ~(conv[u] = "END" /\ conv[v] = "END")

\* C4: at the moment a time keyboard is sent, every slot on it passes the
\* check the commit makes: the slot, extended by the buffer, overlaps no
\* active reservation.
C4_OfferedSlotsAreFree ==
    [][\A u \in Users :
          (conv[u] # "CHOOSING_TIME" /\ conv'[u] = "CHOOSING_TIME") =>
              LET draft == user_drafts'[u][1]
                  offered == OfferedSlots(draft.date[1], draft.duration_min, now')
              IN  \A k \in 1 .. Len(offered) :
                      StrfHM(offered[k][1]) \in Range(reply'[u].kb) =>
                          ~overlaps(bookings', to_utc(offered[k][1]),
                                    to_utc(offered[k][1] + draft.duration_min + BUFFER_MIN))]_vars

\* C5: when the re-check of a commit finds the buffer-extended candidate
\* occupied, the table is left as it was, the customer is told the slot was
\* taken and is back in CHOOSING_TIME with the current time keyboard; the
\* step ends there, with no retry.
C5_ConflictLeavesLedgerAndReoffers ==
    [][\A u \in Users :
          (/\ CommitStep(u)
           /\ overlaps(bookings, to_utc(Draft(u).start_dt[1]),
                       to_utc(Draft(u).start_dt[1] + Draft(u).duration_min + BUFFER_MIN)))
          => /\ bookings' = bookings
             /\ conv'[u] = "CHOOSING_TIME"
             /\ reply'[u] = Msg("slot_taken",
                                time_kb(Draft(u).date[1], Draft(u).duration_min, now), 0)
             /\ \A v \in Users \ {u} : conv'[v] = conv[v] /\ reply'[v] = reply[v]]_vars

\* a customer was told the slot was taken while that slot is occupied
C5_Witness ==
    \E u \in Users :
        /\ conv[u] = "CHOOSING_TIME"
        /\ reply[u].text = "slot_taken"
        /\ reply[u].kb # <<>>
        /\ overlaps(bookings, to_utc(Draft(u).start_dt[1]),
                    to_utc(Draft(u).start_dt[1] + Draft(u).duration_min + BUFFER_MIN))

\* C6: every slot iter_open_slots returns starts at or after the opening
\* instant, and start + duration + BUFFER_MIN is at or before the closing
\* instant.
C6_SlotsInsideWindow ==
    slotCall.pc = "done" =>
        LET d == DateOf(slotCall.date_local)
        IN  \A k \in 1 .. Len(slotCall.out) :
                /\ slotCall.out[k][1] >= OpeningInstant(d)
                /\ slotCall.out[k][1] + slotCall.duration_min + BUFFER_MIN <= ClosingInstant(d)

\* a call whose last slot, with the buffer, ends exactly at the closing instant
C6_Witness ==
    /\ slotCall.pc = "done"
    /\ Len(slotCall.out) > 0
    /\ slotCall.out[Len(slotCall.out)][1] + slotCall.duration_min + BUFFER_MIN
           = ClosingInstant(DateOf(slotCall.date_local))

\* C7: the result is the fixed grid: slot k (from 0) starts at opening +
\* k * SLOT_STEP_MIN and ends duration later (no buffer in the end), no grid
\* point is skipped, the list stops at the first grid point that does not fit
\* with the buffer before closing, and it is empty when not even the opening
\* instant fits.
C7_SlotsAreTheGrid ==
    slotCall.pc = "done" =>
        LET d == DateOf(slotCall.date_local)
            dur == slotCall.duration_min
            n == Len(slotCall.out)
            GridPoint(k) == OpeningInstant(d) + k * SLOT_STEP_MIN
        IN  /\ \A k \in 0 .. n - 1 :
                   /\ slotCall.out[k + 1] = <<GridPoint(k), GridPoint(k) + dur>>
                   /\ GridPoint(k) + dur + BUFFER_MIN <= ClosingInstant(d)
            /\ GridPoint(n) + dur + BUFFER_MIN > ClosingInstant(d)
            /\ (dur + BUFFER_MIN > ClosingInstant(d) - OpeningInstant(d) => n = 0)

\* a call with a duration that does not fit even at the opening instant
C7_Witness ==
    /\ slotCall.pc = "done"
    /\ slotCall.duration_min + BUFFER_MIN > ClosingInstant(0) - OpeningInstant(0)
    /\ slotCall.out = <<>>

\* closed-form band arithmetic for an interval inside the operating window of
\* date d: minutes in [13:00, 18:00) and minutes in [18:00, 24:00) + [00:00, 02:00)
OverlapLen(a1, a2, b1, b2) == Max2(0, Min2(a2, b2) - Max2(a1, b1))
DayBandMinutes(d, s, e) ==
    OverlapLen(s, e, LocalMidnight(d) + 13 * 60, LocalMidnight(d) + 18 * 60)
EveBandMinutes(d, s, e) ==
    OverlapLen(s, e, LocalMidnight(d) + 18 * 60, LocalMidnight(d) + 24 * 60)
        + OverlapLen(s, e, LocalMidnight(d + 1), LocalMidnight(d + 1) + 2 * 60)
\* the nearest integer to n60 / 60
RoundNearest60(n60) == (2 * n60 + 60) \div 120
BandPrice60(d, s, e) == DayBandMinutes(d, s, e) * 400 + EveBandMinutes(d, s, e) * 500

InWindowCall ==
    /\ priceCall.pc = "returned"
    /\ priceCall.start_local <= priceCall.end_local
    /\ OpeningInstant(0) <= priceCall.start_local
    /\ priceCall.end_local <= ClosingInstant(0)

\* C8: without add-ons, the price of an interval inside the operating window
\* is the band arithmetic rounded once: round(day minutes * 400/60 + evening
\* minutes * 500/60); 17:30-18:30 costs 450.
C8_PriceIsBandArithmetic ==
    (InWindowCall /\ priceCall.gamepads_mode = "duo" /\ ~priceCall.headsets) =>
        /\ priceCall.out =
               RoundNearest60(BandPrice60(0, priceCall.start_local, priceCall.end_local))
        /\ (/\ priceCall.start_local = LocalMidnight(0) + 17 * 60 + 30
            /\ priceCall.end_local = LocalMidnight(0) + 18 * 60 + 30)
           => priceCall.out = 450

\* 17:30-18:30 without add-ons was priced at 450
C8_Witness ==
    /\ priceCall.pc = "returned"
    /\ priceCall.start_local = LocalMidnight(0) + 17 * 60 + 30
    /\ priceCall.end_local = LocalMidnight(0) + 18 * 60 + 30
    /\ priceCall.gamepads_mode = "duo" /\ ~priceCall.headsets
    /\ priceCall.out = 450

\* C9: squad adds 100/60 per minute of the whole duration, headsets add 150
\* once, both before the single rounding; 13:00-14:00 plain is 400,
\* 17:00-19:00 squad is 1100, with headsets 1250.
C9_SurchargesBeforeRounding ==
    InWindowCall =>
        LET s == priceCall.start_local
            e == priceCall.end_local
            squad == IF priceCall.gamepads_mode = "squad" THEN 100 * (e - s) ELSE 0
            hs == IF priceCall.headsets THEN 150 * 60 ELSE 0
            At(h) == LocalMidnight(0) + h * 60
        IN  /\ priceCall.out = RoundNearest60(BandPrice60(0, s, e) + squad + hs)
            /\ (s = At(13) /\ e = At(14) /\ priceCall.gamepads_mode = "duo"
                    /\ ~priceCall.headsets) => priceCall.out = 400
            /\ (s = At(17) /\ e = At(19) /\ priceCall.gamepads_mode = "squad"
                    /\ ~priceCall.headsets) => priceCall.out = 1100
            /\ (s = At(17) /\ e = At(19) /\ priceCall.gamepads_mode = "squad"
                    /\ priceCall.headsets) => priceCall.out = 1250

\* 17:00-19:00 with squad and headsets was priced at 1250
C9_Witness ==
    /\ priceCall.pc = "returned"
    /\ priceCall.start_local = LocalMidnight(0) + 17 * 60
    /\ priceCall.end_local = LocalMidnight(0) + 19 * 60
    /\ priceCall.gamepads_mode = "squad" /\ priceCall.headsets
    /\ priceCall.out = 1250

\* C10: a call with end <= start is rejected: it never returns a price.
C10_NonPositiveIntervalRejected ==
    priceCall.end_local <= priceCall.start_local => priceCall.pc # "returned"


\* the intervals customers and the operator ask for in Spec, as
\* <<local start, minutes>>
AskedIntervals ==
    {<<Replace(LocalMidnight(b[1]), b[2], b[3]), b[4]>> : b \in BlockInputs}
        \cup {<<Replace(LocalMidnight(Today), p[1], p[2]), minutes>> :
                  p \in TimePicks, minutes \in PickedDurations}

\* C11: the conflict check is symmetric: the commit of one customer's draft
\* conflicts with a ledger that holds only the other customer's booking
\* exactly when the other's commit conflicts with a ledger that holds only
\* the first one's booking.
C11_ConflictCheckSymmetric ==
    \A u, v \in Users :
        (/\ u # v
         /\ user_drafts[u] # None /\ user_drafts[v] # None
         /\ Draft(u).start_dt # None /\ Draft(v).start_dt # None)
        => (EnterPhoneCheck(<<PendingRow(Draft(v), 0)>>,
                            Draft(u).start_dt[1], Draft(u).duration_min)
            <=> EnterPhoneCheck(<<PendingRow(Draft(u), 0)>>,
                                Draft(v).start_dt[1], Draft(v).duration_min))

\* C12: for the same interval and the same ledger, the check of enter_phone
\* and the check of admin_block give the same verdict.
C12_SameVerdictAtBothCallSites ==
    \A p \in AskedIntervals :
        EnterPhoneCheck(bookings, p[1], p[2]) = AdminBlockCheck(bookings, p[1], p[2])

\* the ledger without its cancelled rows
WithoutCancelled(conn) == SelectSeq(conn, LAMBDA row : row.status # "cancelled")

\* C13: cancelled reservations take no part in the conflict check: at both
\* call sites the verdict on the ledger equals the verdict on the ledger
\* with the cancelled rows removed, and a commit that conflicts with no
\* row other than cancelled ones is inserted.
C13_CancelledRowsNeverConflict ==
    [][/\ \A p \in AskedIntervals :
            /\ EnterPhoneCheck(bookings, p[1], p[2])
                   = EnterPhoneCheck(WithoutCancelled(bookings), p[1], p[2])
            /\ AdminBlockCheck(bookings, p[1], p[2])
                   = AdminBlockCheck(WithoutCancelled(bookings), p[1], p[2])
       /\ \A u \in Users :
            (/\ CommitStep(u)
             /\ ~EnterPhoneCheck(WithoutCancelled(bookings),
                                 Draft(u).start_dt[1], Draft(u).duration_min))
            => /\ Len(bookings') = Len(bookings) + 1
               /\ conv'[u] = "END"]_vars

\* a cancelled row and a later active row on the same interval
C13_Witness ==
    \E i, j \in Rows :
        /\ i < j
        /\ bookings[i].status = "cancelled"
        /\ IsActive(bookings[j])
        /\ bookings[j].start_ts = bookings[i].start_ts
        /\ bookings[j].end_ts = bookings[i].end_ts

\* C14: overlaps(conn, s, e) is true exactly when some row with status
\* pending, confirmed or blocked has start_ts < e and end_ts > s; an
\* interval that only touches an active row at an endpoint is not reported.
C14_OverlapsIsActiveIntersection ==
    /\ \A p \in AskedIntervals :
          LET s == Timestamp(to_utc(p[1]))
              e == Timestamp(to_utc(p[1] + p[2]))
          IN  overlaps(bookings, to_utc(p[1]), to_utc(p[1] + p[2]))
                  <=> \E i \in Rows :
                          /\ bookings[i].status \in {"pending", "confirmed", "blocked"}
                          /\ bookings[i].start_ts < e
                          /\ s < bookings[i].end_ts
    /\ \A i \in Rows, minutes \in DURATIONS :
          LET s0 == bookings[i].start_ts \div 60
              e0 == bookings[i].end_ts \div 60
          IN  /\ ~overlaps(<<bookings[i]>>, e0, e0 + minutes)
              /\ ~overlaps(<<bookings[i]>>, s0 - minutes, s0)

\* an asked interval starts where an active row ends and is reported free,
\* while another asked interval is reported occupied
C14_Witness ==
    /\ \E p \in AskedIntervals, i \in Rows :
          /\ IsActive(bookings[i])
          /\ bookings[i].end_ts = Timestamp(to_utc(p[1]))
          /\ ~overlaps(bookings, to_utc(p[1]), to_utc(p[1] + p[2]))
    /\ \E q \in AskedIntervals : overlaps(bookings, to_utc(q[1]), to_utc(q[1] + q[2]))

\* C15: when the requested date is the current local date, the keyboard of
\* time_kb holds exactly the buttons of the slots that start at or after
\* now, in order: no slot that starts earlier than now is offered, and
\* every other slot, those after local midnight included, is offered.
C15_TodayKeyboardIsFutureSlots ==
    (kbCall.pc = "done" /\ DateOf(kbCall.date_local) = DateOf(now))
    => LET slots == iter_open_slots(kbCall.date_local, kbCall.duration_min)
           future == SelectSeq(slots, LAMBDA sl : sl[1] >= now)
       IN  kbCall.out = [i \in 1 .. Len(future) |-> StrfHM(future[i][1])]

\* a keyboard for today built at 14:00: the 13:00 slot is gone, the slot
\* that starts now and the slot at midnight are offered
C15_Witness ==
    /\ kbCall.pc = "done"
    /\ DateOf(kbCall.date_local) = DateOf(now)
    /\ TimeOfDay(now) = 14 * 60
    /\ <<13, 0>> \notin Range(kbCall.out)
    /\ <<14, 0>> \in Range(kbCall.out)
    /\ <<0, 0>> \in Range(kbCall.out)

\* C16: for a fixed start and fixed add-ons, a booking of d >= 1 minutes
\* never costs more than the booking that is SLOT_STEP_MIN minutes longer.
C16_PriceMonotoneInDuration ==
    (priceCall.pc = "returned" /\ priceCall.end_local - priceCall.start_local >= 1)
    => price_for_interval(priceCall.start_local, priceCall.end_local + SLOT_STEP_MIN,
                          priceCall.gamepads_mode, priceCall.headsets)
           >= priceCall.out

\* a priced interval that ends before midnight and whose longer interval
\* runs past midnight and costs strictly more
C16_Witness ==
    /\ priceCall.pc = "returned"
    /\ priceCall.end_local - priceCall.start_local >= 1
    /\ DateOf(priceCall.end_local) = DateOf(priceCall.start_local)
    /\ DateOf(priceCall.end_local + SLOT_STEP_MIN) > DateOf(priceCall.start_local)
    /\ price_for_interval(priceCall.start_local, priceCall.end_local + SLOT_STEP_MIN,
                          priceCall.gamepads_mode, priceCall.headsets)
           > priceCall.out

\* C17: a step adds at most one row, at the end, and then leaves every
\* field of the rows that were there unchanged; an accepted commit adds
\* exactly one; no step removes a row; the
\* only field of an existing row a step changes is status, the new value is
\* confirmed or cancelled, and such a step is an operator command (it moves
\* no conversation and touches no draft).
C17_LedgerFrame ==
    [][/\ Len(bookings') \in {Len(bookings), Len(bookings) + 1}
       /\ \A i \in Rows :
            /\ bookings'[i] = [bookings[i] EXCEPT !.status = bookings'[i].status]
            /\ Len(bookings') = Len(bookings) + 1 => bookings'[i] = bookings[i]
            /\ bookings'[i].status # bookings[i].status
                   => /\ bookings'[i].status \in {"confirmed", "cancelled"}
                      /\ conv' = conv
                      /\ user_drafts' = user_drafts
       /\ \A u \in Users :
            (CommitStep(u) /\ conv'[u] = "END") => Len(bookings') = Len(bookings) + 1]_vars

\* two rows were inserted, one has been cancelled and is still there, the
\* other has been confirmed
C17_Witness ==
    \E i, j \in Rows :
        /\ i # j
        /\ bookings[i].status = "cancelled"
        /\ bookings[j].status = "confirmed"

\* C18: in every state reached by commits, blocks, confirms and cancels,
\* no two distinct active reservations have overlapping stored intervals
\* [start_ts, end_ts).
C18_NoActiveOverlap ==
    \A i, j \in Rows :
        (i # j /\ IsActive(bookings[i]) /\ IsActive(bookings[j]))
        => \/ bookings[i].end_ts <= bookings[j].start_ts
           \/ bookings[j].end_ts <= bookings[i].start_ts

\* the start instants of the slots whose button is on the keyboard last
\* sent to u
OfferedStarts(u) ==
    {sl[1] : sl \in {x \in Range(iter_open_slots(Draft(u).date[1], Draft(u).duration_min)) :
                         StrfHM(x[1]) \in Range(reply[u].kb)}}

PricedFields(d) == <<d.start_dt, d.duration_min, d.gamepads_mode, d.headsets>>
QuoteOf(d) ==
    price_for_interval(d.start_dt[1], d.start_dt[1] + d.duration_min,
                       d.gamepads_mode, d.headsets)

\* C20: the row a customer's commit inserts has status pending, a stored
\* interval of exactly duration_min minutes (no buffer) and the price
\* price_for_interval(start, start + duration, add-ons) of its draft; that
\* is the amount quoted at "next:confirm", because the quote is the price
\* of the draft and the draft is priced the same from the quote to the
\* commit.
C20_CommittedRowMatchesQuote ==
    [][\A u \in Users :
          /\ (conv[u] = "CHOOSING_ADDONS" /\ conv'[u] = "ENTERING_NAME")
                => /\ reply'[u].price = QuoteOf(Draft(u))
                   /\ PricedFields(user_drafts'[u][1]) = PricedFields(Draft(u))
          /\ (conv[u] = "ENTERING_NAME" /\ conv'[u] = "ENTERING_PHONE")
                => PricedFields(user_drafts'[u][1]) = PricedFields(Draft(u))
          /\ (CommitStep(u) /\ conv'[u] = "END")
                => /\ Len(bookings') = Len(bookings) + 1
                   /\ LET row == bookings'[Len(bookings')]
                      IN  /\ row.status = "pending"
                          /\ row.duration_min = Draft(u).duration_min
                          /\ row.end_ts - row.start_ts = 60 * Draft(u).duration_min
                          /\ row.price_total = QuoteOf(Draft(u))]_vars

\* a committed two-hour booking from 17:00 with both add-ons: one hour in
\* each band, the squad surcharge for two hours and the headset fee
C20_Witness ==
    \E i \in Rows :
        /\ bookings[i].status = "pending"
        /\ bookings[i].addons = "squad;headsets"
        /\ bookings[i].duration_min = 2 * 60
        /\ bookings[i].end_ts - bookings[i].start_ts = 2 * 60 * 60
        /\ bookings[i].price_total = DAY_RATE + EVE_RATE + 2 * SQUAD_RATE + HEADSET_FEE
====
